---- MODULE Spec2Model ----
(***************************************************************************)
(* The purchase indexer of the Storefront dApp (server script): a bounded  *)
(* historical scan (indexPastPurchases) and a live log subscription both   *)
(* feed processPurchases, which writes receipts into the in-memory map     *)
(* STOREFRONT_PURCHASES.  The chain node is the environment.               *)
(***************************************************************************)
EXTENDS Bags, FiniteSets, Integers, Sequences, TLC

(***************************************************************************)
(* Bounds of the model.                                                    *)
(***************************************************************************)
\* how many times the chain advances (each time by one of Steps)
MaxMines == 2
\* how many transactions carrying a Storefront log are ever mined
MaxTx == 2
\* how many times in all the node pushes a log it has pushed before (the
\* subscription delivers at least once)
MaxDuplicates == 1
\* how many transactions a reorganisation drops
MaxReorgs == 1
\* how many times processPurchases is called directly with an arbitrary log
MaxCalls == 1

\* how many transactions are sent to the Storefront contract
MaxSends == 3

\* the largest stock addItems sets, and one less than the largest quantity
\* asked for
MaxStock == 2

(***************************************************************************)
(* Numbers.  A uint256 reaches the script as a decimal string; the model   *)
(* keeps its exact value as hi * 2^27 + lo so that values beyond 2^53 can  *)
(* be told apart.  parseInt turns the string into an IEEE-754 double.      *)
(***************************************************************************)
Base == 2^27

Num(h, l) == [hi |-> h, lo |-> l]

RECURSIVE BitLen(_)
BitLen(n) == IF n = 0 THEN 0 ELSE 1 + BitLen(n \div 2)

NumBits(x) == IF x.hi = 0 THEN BitLen(x.lo) ELSE 27 + BitLen(x.hi)

\* parseInt(<decimal string>): the nearest double, ties to even (53-bit
\* significand).  Exact below 2^53; above, the low bits are rounded away.
ParseInt(x) ==
    LET e == NumBits(x) - 53 IN
    IF e <= 0 THEN x
    ELSE LET step == 2^e
             q    == x.lo \div step
             r    == x.lo % step
             half == step \div 2
             up   == IF r > half \/ (r = half /\ q % 2 = 1) THEN 1 ELSE 0
             lo2  == (q + up) * step
         IN  IF lo2 = Base THEN Num(x.hi + 1, 0) ELSE Num(x.hi, lo2)

(***************************************************************************)
(* The chain: what the Storefront contract can emit.                       *)
(***************************************************************************)
PurchasedTopic == "ItemPurchased(string,uint256)"
UpdatedTopic   == "ItemUpdated(string,uint256,uint256)"

\* the window literal of indexPastPurchases
WindowSize == 500000

\* by how many blocks the chain advances in one step of the model; the last
\* block of a step is the one that may carry a Storefront log
Steps == {1, WindowSize, 700000}

\* log data that is not the encoding of a (string, uint256) pair
Malformed == [raw |-> "0x"]

\* the calls whose logs the chain may carry: two purchases, one addItems, and
\* one call of a contract that emits the ItemPurchased topic with other data
\* (STOREFRONT_ADDRESS may name any contract)
ChainCalls ==
    { [from |-> "0xA", value |-> Num(0, 300), topic |-> PurchasedTopic,
       data |-> [item |-> "sneakers", quantity |-> Num(0, 2)]],
      [from |-> "0xB", value |-> Num(2^26, 1), topic |-> PurchasedTopic,
       data |-> [item |-> "socks", quantity |-> Num(0, 1)]],
      [from |-> "0xOwner", value |-> Num(0, 0), topic |-> UpdatedTopic,
       data |-> [item |-> "socks", price |-> Num(0, 150), stock |-> Num(0, 5)]],
      [from |-> "0xC", value |-> Num(0, 0), topic |-> PurchasedTopic,
       data |-> Malformed] }

\* transaction hashes, in the order the transactions are mined
Hash(n) == <<"0x", n>>

Hashes == {Hash(n) : n \in 1..MaxTx}

EnvVars == {"STOREFRONT_ADDRESS", "WEB3_URI"}

\* the item names of the contract's tests
Items == {"sneakers", "invalid item"}

\* prices addItems sets
Prices == {150, 200}

\* useState<ReactElement>() before any note is set
Undefined == [text |-> "undefined"]

\* the accounts of the tests: the deployer and another
Accounts == {"owner", "otherAccount"}

VARIABLES
    env,                \* the environment variables that are set
    running,            \* the node process is alive
    pc,                 \* where start() is
    height,             \* the chain's latest block number
    mines,              \* how many times the chain advanced
    chain,              \* the Storefront logs on the chain, in block order
    txs,                \* hash -> transaction, for every transaction mined
    dropped,            \* hashes the node no longer knows (reorg)
    currentBlockNumber, \* start(): the height read
    i,                  \* indexPastPurchases: the loop variable
    purchaseLogs,       \* indexPastPurchases: the window's logs
    idx,                \* processPurchases (backfill): position in purchaseLogs
    queries,            \* history: the getPastLogs ranges requested
    subState,           \* the subscription: none, requested, active, failed
    feed,               \* logs the node has to push to the subscription
    deliveries,         \* hash -> how often the node pushed its log
    liveTasks,          \* bag of processPurchases calls awaiting getTransaction
    calls,              \* how many direct calls were made
    ledger,             \* STOREFRONT_PURCHASES
    lines,              \* bag of console.log lines of processPurchases
    errors              \* history: the kinds of error thrown so far

\* the Storefront contract
VARIABLES
    prices,             \* prices(item)
    stock,              \* stock(item)
    balance,            \* the contract's balance
    emitted,            \* the events the contract has emitted
    reverted,           \* the last transaction: its revert reason, or "no"
    sends               \* how many transactions were sent to the contract

storeVars == <<prices, stock, balance, emitted, reverted, sends>>

\* the browser interface and the wallet behind it
VARIABLES
    walletAccounts,     \* the wallet gives the page an account
    appPc,              \* App, on load: getAccounts awaited, or idle
    connectPc,          \* connect(): idle, requestAccounts, getAccounts
    isConnected,        \* App state
    itemsPc,            \* Storefront: unmounted, getItems awaited, loaded
    storeItems,         \* Storefront state
    isPurchasing,       \* Storefront state
    purchaseNote,       \* Storefront state
    flows,              \* bag of purchase() calls at an await
    purchases           \* history: how many times purchase() was called

uiVars == <<walletAccounts, appPc, connectPc, isConnected, itemsPc,
            storeItems, isPurchasing, purchaseNote, flows, purchases>>

vars == <<env, running, pc, height, mines, chain, txs, dropped,
          currentBlockNumber, i, purchaseLogs, idx, queries, subState, feed,
          deliveries, liveTasks, calls, ledger, lines, errors, storeVars,
          uiVars>>

indexerVars == <<env, running, pc, height, mines, chain, txs, dropped,
                 currentBlockNumber, i, purchaseLogs, idx, queries, subState,
                 feed, deliveries, liveTasks, calls, ledger, lines, errors>>

chainVars == <<height, mines, chain, txs, dropped>>
scanVars  == <<currentBlockNumber, i, purchaseLogs, idx, queries>>
liveVars  == <<feed, deliveries, liveTasks>>

Init ==
    /\ env \in SUBSET EnvVars
    /\ running = TRUE
    /\ pc = "load"
    /\ height = 0
    /\ mines = 0
    /\ chain = <<>>
    /\ txs = <<>>
    /\ dropped = {}
    /\ currentBlockNumber = 0
    /\ i = 0
    /\ purchaseLogs = <<>>
    /\ idx = 0
    /\ queries = <<>>
    /\ subState = "none"
    /\ feed = {}
    /\ deliveries = [h \in Hashes |-> 0]
    /\ liveTasks = EmptyBag
    /\ calls = 0
    /\ ledger = <<>>
    /\ lines = EmptyBag
    /\ errors = {}
    /\ prices = [n \in Items |-> 0]
    /\ stock = [n \in Items |-> 0]
    /\ balance = 0
    /\ emitted = <<>>
    /\ reverted = "no"
    /\ sends = 0
    /\ walletAccounts = FALSE
    /\ appPc = "getAccounts"
    /\ connectPc = "idle"
    /\ isConnected = FALSE
    /\ itemsPc = "unmounted"
    /\ storeItems = <<>>
    /\ isPurchasing = FALSE
    /\ purchaseNote = Undefined
    /\ flows = EmptyBag
    /\ purchases = 0

(***************************************************************************)
(* Helpers of the script.                                                  *)
(***************************************************************************)
\* PURCHASE_FILTER: the Storefront's logs whose first topic is the
\* ItemPurchased signature (every log of the model is the Storefront's)
PURCHASE_FILTER(log) == log.topic = PurchasedTopic

\* web3.eth.abi.decodeLog(ITEM_PURCHASED_ABI_INPUT, log.data, log.topics): the
\* inputs (string item, uint256 quantity) are not indexed, so the fields are
\* read from the data alone and the topics are not looked at; it throws when
\* the data is not the encoding of a (string, uint256) pair
Decodes(log) == DOMAIN log.data = {"item", "quantity"}

decodeLog(log) == [item |-> log.data.item, quantity |-> log.data.quantity]

\* web3.eth.getTransaction(hash): the transaction, or null when the node does
\* not know the hash
Null == [hash |-> "null"]

getTransaction(hash) ==
    IF hash \in DOMAIN txs /\ hash \notin dropped THEN txs[hash] ELSE Null

\* a receipt that carries the zero hash where the transaction's belongs
ReceiptZeroId(tx, item, quantity) ==
    [from          |-> tx.from,
     item          |-> item,
     quantity      |-> ParseInt(quantity),
     total         |-> ParseInt(tx.value),
     transactionId |-> Hash(0)]

\* the receipt processPurchases constructs
Receipt(tx, item, quantity) ==
    [from          |-> tx.from,
     item          |-> item,
     quantity      |-> ParseInt(quantity),
     total         |-> ParseInt(tx.value),
     transactionId |-> tx.hash]

\* a store that merges into the entry already there: the quantities add up
StoreAdding(map, key, receipt) ==
    [k \in DOMAIN map \cup {key} |->
        IF k # key THEN map[k]
        ELSE IF key \in DOMAIN map
             THEN [receipt EXCEPT !.quantity.lo = @ + map[key].quantity.lo]
             ELSE receipt]

\* STOREFRONT_PURCHASES[key] = receipt
Store(map, key, receipt) ==
    [k \in DOMAIN map \cup {key} |-> IF k = key THEN receipt ELSE map[k]]

\* the line processPurchases prints: the strings as they came from the node
Line(tx, item, quantity) ==
    [transactionId |-> tx.hash, quantity |-> quantity, item |-> item,
     from |-> tx.from, value |-> tx.value]

\* an exception nobody catches (a rejected promise without handler, a throw
\* out of a callback): depending on the runtime the process ends or goes on
Uncaught(kind) ==
    /\ errors' = errors \cup {kind}
    /\ running' \in BOOLEAN

NoError == UNCHANGED <<errors, running>>

\* web3.eth.getPastLogs({...PURCHASE_FILTER, fromBlock, toBlock}): the
\* matching logs of the blocks fromBlock..toBlock, both included, in order
getPastLogs(fromBlock, toBlock) ==
    SelectSeq(chain, LAMBDA l : /\ PURCHASE_FILTER(l)
                                /\ fromBlock <= l.blockNumber
                                /\ l.blockNumber <= toBlock)

(***************************************************************************)
(* The chain (environment), followed for as long as the process lives.     *)
(***************************************************************************)
\* the chain advances by d blocks; the last of them carries no Storefront log
MineEmpty(d) ==
    /\ running
    /\ mines < MaxMines
    /\ mines' = mines + 1
    /\ height' = height + d
    /\ UNCHANGED <<storeVars, uiVars, env, running, pc, chain, txs, dropped, scanVars, subState,
                   liveVars, calls, ledger, lines, errors>>

\* the chain advances by d blocks; the last of them holds a transaction that
\* calls the Storefront and emits one log.  An established subscription is
\* handed the log when it matches the filter
MineCall(d, c) ==
    LET hash == Hash(Cardinality(DOMAIN txs) + 1)
        log  == [blockNumber     |-> height + d,
                 transactionHash |-> hash,
                 topic           |-> c.topic,
                 data            |-> c.data]
    IN  /\ running
        /\ mines < MaxMines
        /\ hash \in Hashes
        /\ mines' = mines + 1
        /\ height' = height + d
        /\ chain' = Append(chain, log)
        /\ txs' = Store(txs, hash, [hash |-> hash, from |-> c.from, value |-> c.value])
        /\ feed' = IF subState = "active" /\ PURCHASE_FILTER(log)
                   THEN feed \cup {log} ELSE feed
        /\ UNCHANGED <<storeVars, uiVars, env, running, pc, dropped, scanVars, subState,
                       deliveries, liveTasks, calls, ledger, lines, errors>>

\* a reorganisation drops a mined transaction: its log leaves the chain and
\* the node no longer knows its hash
Reorg(hash) ==
    /\ running
    /\ Cardinality(dropped) < MaxReorgs
    /\ hash \in DOMAIN txs
    /\ hash \notin dropped
    /\ dropped' = dropped \cup {hash}
    /\ chain' = SelectSeq(chain, LAMBDA l : l.transactionHash # hash)
    /\ UNCHANGED <<storeVars, uiVars, env, running, pc, height, mines, txs, scanVars, subState,
                   liveVars, calls, ledger, lines, errors>>

(***************************************************************************)
(* The script.                                                             *)
(***************************************************************************)
\* a top level that tests STOREFRONT_ADDRESS only, as getStorefrontContract
\* of the browser library does
CheckEnvAddressOnly ==
    /\ running
    /\ pc = "load"
    /\ IF "STOREFRONT_ADDRESS" \in env
       THEN /\ pc' = "getBlockNumber"
            /\ NoError
       ELSE /\ pc' = "fatal"
            /\ running' = FALSE
            /\ errors' = errors \cup {"Config"}
    /\ UNCHANGED <<storeVars, uiVars, env, chainVars, scanVars, subState, liveVars, calls,
                   ledger, lines>>

\* module top level: both environment variables must be set, then start()
\* is called and awaits getBlockNumber
CheckEnv ==
    /\ running
    /\ pc = "load"
    /\ IF EnvVars \subseteq env
       THEN /\ pc' = "getBlockNumber"
            /\ NoError
       ELSE /\ pc' = "fatal"
            /\ running' = FALSE
            /\ errors' = errors \cup {"Config"}
    /\ UNCHANGED <<storeVars, uiVars, env, chainVars, scanVars, subState, liveVars, calls,
                   ledger, lines>>

\* a for loop that forgets its increment: the cursor stays where it was
ScanWindowNoIncrement(cur) ==
    /\ i' = i
    /\ idx' = 0
    /\ IF i < currentBlockNumber'
       THEN /\ pc' = "getPastLogs"
            /\ queries' = Append(queries, <<i, i + WindowSize>>)
       ELSE /\ pc' = "done"
            /\ queries' = queries

\* the for loop of indexPastPurchases with loop variable cur: request the
\* window cur..cur+500000, or finish
ScanWindow(cur) ==
    /\ i' = cur
    /\ idx' = 0
    /\ IF cur < currentBlockNumber'
       THEN /\ pc' = "getPastLogs"
            /\ queries' = Append(queries, <<cur, cur + WindowSize>>)
       ELSE /\ pc' = "done"
            /\ queries' = queries

\* an indexPastPurchases that moves to the next window once the first log of
\* the window is stored, leaving the rest of the window
ScanLogFirstOnly(logs, k) ==
    IF k <= Len(logs) /\ k <= 1
    THEN /\ UNCHANGED <<i, queries>>
         /\ IF Decodes(logs[k])
            THEN /\ pc' = "getTransaction"
                 /\ idx' = k
                 /\ NoError
            ELSE /\ pc' = "rejected"
                 /\ idx' = k
                 /\ Uncaught("DecodeError")
    ELSE /\ ScanWindow(i + WindowSize)
         /\ NoError

\* the for loop of processPurchases over the window's logs at position k:
\* decode the log and ask for its transaction; after the last log, the next
\* window
ScanLog(logs, k) ==
    IF k <= Len(logs)
    THEN /\ UNCHANGED <<i, queries>>
         /\ IF Decodes(logs[k])
            THEN /\ pc' = "getTransaction"
                 /\ idx' = k
                 /\ NoError
            ELSE /\ pc' = "rejected"
                 /\ idx' = k
                 /\ Uncaught("DecodeError")
    ELSE /\ ScanWindow(i + WindowSize)
         /\ NoError

\* a start() that begins indexPastPurchases and leaves subscribing for after
\* the scan
StartScanFirst ==
    /\ running
    /\ pc = "getBlockNumber"
    /\ currentBlockNumber' = height
    /\ subState' = subState
    /\ purchaseLogs' = purchaseLogs
    /\ ScanWindow(0)
    /\ NoError
    /\ UNCHANGED <<storeVars, uiVars, env, chainVars, liveVars, calls, ledger, lines>>

\* start(): getBlockNumber has answered; subscribe, then indexPastPurchases
Start ==
    /\ running
    /\ pc = "getBlockNumber"
    /\ currentBlockNumber' = height
    /\ subState' = "requested"
    /\ purchaseLogs' = purchaseLogs
    /\ ScanWindow(0)
    /\ NoError
    /\ UNCHANGED <<storeVars, uiVars, env, chainVars, liveVars, calls, ledger, lines>>

\* indexPastPurchases: getPastLogs has answered; processPurchases starts
PastLogs ==
    /\ running
    /\ pc = "getPastLogs"
    /\ purchaseLogs' = getPastLogs(i, i + WindowSize)
    /\ currentBlockNumber' = currentBlockNumber
    /\ ScanLog(purchaseLogs', 1)
    /\ UNCHANGED <<storeVars, uiVars, env, chainVars, subState, liveVars, calls, ledger, lines>>

\* processPurchases (backfill): getTransaction has answered for the log at idx
ScanTransaction ==
    LET log == purchaseLogs[idx]
        d   == decodeLog(log)
        tx  == getTransaction(log.transactionHash)
    IN  /\ running
        /\ pc = "getTransaction"
        /\ UNCHANGED <<currentBlockNumber, purchaseLogs>>
        /\ IF tx = Null
           THEN /\ pc' = "rejected"
                /\ Uncaught("NotFound")
                /\ UNCHANGED <<i, idx, queries, ledger, lines>>
           ELSE /\ ledger' = Store(ledger, tx.hash, Receipt(tx, d.item, d.quantity))
                /\ lines' = lines (+) SetToBag({Line(tx, d.item, d.quantity)})
                /\ ScanLog(purchaseLogs, idx + 1)
        /\ UNCHANGED <<storeVars, uiVars, env, chainVars, subState, liveVars, calls>>

\* the node has registered the subscription: logs mined from now on are pushed
Subscribed ==
    /\ running
    /\ subState = "requested"
    /\ subState' = "active"
    /\ UNCHANGED <<storeVars, uiVars, env, running, pc, chainVars, scanVars, liveVars, calls,
                   ledger, lines, errors>>

\* the subscription callback is called with err: it throws err.  Nothing in
\* the script subscribes again
SubscriptionError ==
    /\ running
    /\ subState \in {"requested", "active"}
    /\ subState' = "failed"
    /\ Uncaught("Transport")
    /\ UNCHANGED <<storeVars, uiVars, env, pc, chainVars, scanVars, liveVars, calls, ledger, lines>>

\* the local variables of one processPurchases([log]) call that awaits
\* getTransaction
Task(log) ==
    [transactionHash |-> log.transactionHash,
     item            |-> decodeLog(log).item,
     quantity        |-> decodeLog(log).quantity]

\* processPurchases([log]) up to its first await
ProcessOne(log) ==
    IF Decodes(log)
    THEN /\ liveTasks' = liveTasks (+) SetToBag({Task(log)})
         /\ NoError
    ELSE /\ liveTasks' = liveTasks
         /\ Uncaught("DecodeError")

\* how many pushes so far repeated an earlier push
RECURSIVE SumOver(_, _)
SumOver(f, S) ==
    IF S = {} THEN 0
    ELSE LET x == CHOOSE y \in S : TRUE IN f[x] + SumOver(f, S \ {x})

Duplicates ==
    SumOver([h \in Hashes |-> IF deliveries[h] > 1 THEN deliveries[h] - 1 ELSE 0], Hashes)

\* the subscription callback is called with a log (the node may push a log
\* more than once): processPurchases([newPurchase]), not awaited
LiveLog(log) ==
    /\ running
    /\ subState = "active"
    /\ log \in feed
    /\ deliveries[log.transactionHash] = 0 \/ Duplicates < MaxDuplicates
    /\ deliveries' = [deliveries EXCEPT ![log.transactionHash] = @ + 1]
    /\ ProcessOne(log)
    /\ UNCHANGED <<storeVars, uiVars, env, pc, chainVars, scanVars, subState, feed, calls,
                   ledger, lines>>

\* a processPurchases that enters the decoded fields under the log's hash
\* before it has the transaction, and leaves them there when the lookup fails
LiveTransactionPartial(task) ==
    LET tx == getTransaction(task.transactionHash)
    IN  /\ running
        /\ BagIn(task, liveTasks)
        /\ liveTasks' = liveTasks (-) SetToBag({task})
        /\ IF tx = Null
           THEN /\ Uncaught("NotFound")
                /\ ledger' = Store(ledger, task.transactionHash,
                                   [item |-> task.item, quantity |-> ParseInt(task.quantity)])
                /\ UNCHANGED lines
           ELSE /\ ledger' = Store(ledger, tx.hash, Receipt(tx, task.item, task.quantity))
                /\ lines' = lines (+) SetToBag({Line(tx, task.item, task.quantity)})
                /\ NoError
        /\ UNCHANGED <<storeVars, uiVars, env, pc, chainVars, scanVars, subState, feed,
                       deliveries, calls>>

\* processPurchases (live): getTransaction has answered for one call
LiveTransaction(task) ==
    LET tx == getTransaction(task.transactionHash)
    IN  /\ running
        /\ BagIn(task, liveTasks)
        /\ liveTasks' = liveTasks (-) SetToBag({task})
        /\ IF tx = Null
           THEN /\ Uncaught("NotFound")
                /\ UNCHANGED <<ledger, lines>>
           ELSE /\ ledger' = Store(ledger, tx.hash, Receipt(tx, task.item, task.quantity))
                /\ lines' = lines (+) SetToBag({Line(tx, task.item, task.quantity)})
                /\ NoError
        /\ UNCHANGED <<storeVars, uiVars, env, pc, chainVars, scanVars, subState, feed,
                       deliveries, calls>>

\* the logs processPurchases may be handed when it is called on its own: any
\* first topic, data that is or is not the encoding of (string, uint256)
AnyLogs ==
    { [blockNumber |-> 0, transactionHash |-> h, topic |-> t, data |-> d] :
        h \in Hashes,
        t \in {PurchasedTopic, UpdatedTopic},
        d \in {[item |-> "sneakers", quantity |-> Num(0, 2)], Malformed} }

\* processPurchases([log]) called with a log that did not come through the
\* filter
DirectCall(log) ==
    /\ running
    /\ pc \notin {"load", "fatal"}
    /\ calls < MaxCalls
    /\ log.transactionHash \in DOMAIN txs
    /\ calls' = calls + 1
    /\ ProcessOne(log)
    /\ UNCHANGED <<storeVars, uiVars, env, pc, chainVars, scanVars, subState, feed, deliveries,
                   ledger, lines>>

Chain ==
    \/ \E d \in Steps : MineEmpty(d)
    \/ \E d \in Steps, c \in ChainCalls : MineCall(d, c)
    \/ \E h \in Hashes : Reorg(h)

Next ==
    \/ Chain
    \/ CheckEnv
    \/ Start
    \/ PastLogs
    \/ ScanTransaction
    \/ Subscribed
    \/ SubscriptionError
    \/ \E log \in feed : LiveLog(log)
    \/ \E task \in BagToSet(liveTasks) : LiveTransaction(task)

Spec == Init /\ [][Next]_vars

\* the script with processPurchases also called on arbitrary logs
NextAny == Next \/ \E log \in AnyLogs : DirectCall(log)

SpecAny == Init /\ [][NextAny]_vars

\* every answer the script waits for arrives, and a log handed to the
\* subscription is pushed at least once while the subscription lasts
FairSpec ==
    /\ Spec
    /\ WF_vars(CheckEnv)
    /\ WF_vars(Start)
    /\ WF_vars(PastLogs)
    /\ WF_vars(ScanTransaction)
    /\ WF_vars(Subscribed)
    /\ \A h \in Hashes :
         WF_vars(\E log \in feed : /\ log.transactionHash = h
                                   /\ deliveries[h] = 0
                                   /\ LiveLog(log))
    /\ WF_vars(\E task \in BagToSet(liveTasks) : LiveTransaction(task))

(***************************************************************************)
(* The Storefront contract, as its tests describe it.                      *)
(***************************************************************************)
\* the arrays addItems is called with: none or one element each
Arrays(S) == {<<>>} \cup {<<x>> : x \in S}

\* the values attached to a purchase
Values == {0} \cup {p * q : p \in Prices, q \in 1..MaxStock}

\* a transaction that reverts: nothing of the contract changes
Revert(reason) ==
    /\ reverted' = reason
    /\ UNCHANGED <<prices, stock, balance, emitted>>

\* the mapping after addItems has assigned vals[k] to names[k] for every k
Assigned(map, names, vals) ==
    [n \in Items |->
        IF \E k \in 1..Len(names) : names[k] = n
        THEN vals[CHOOSE k \in 1..Len(names) :
                     /\ names[k] = n
                     /\ \A m \in 1..Len(names) : names[m] = n => m <= k]
        ELSE map[n]]

\* addItems(items, prices, stock) sent by caller: the owner only, arrays of
\* one length; sets price and stock of every item and emits ItemUpdated
addItems(caller, names, ps, ss) ==
    /\ sends < MaxSends
    /\ sends' = sends + 1
    /\ IF caller # "owner"
       THEN Revert("Nah uh - you are not the owner")
       ELSE IF Len(names) # Len(ps) \/ Len(names) # Len(ss)
       THEN Revert("")
       ELSE /\ prices' = Assigned(prices, names, ps)
            /\ stock' = Assigned(stock, names, ss)
            /\ emitted' = emitted \o
                  [k \in 1..Len(names) |->
                      [event |-> "ItemUpdated", item |-> names[k],
                       price |-> ps[k], stock |-> ss[k]]]
            /\ reverted' = "no"
            /\ balance' = balance

\* a purchase that does not ask for a quantity above zero
purchaseAnyQuantity(caller, item, quantity, value) ==
    /\ sends < MaxSends
    /\ sends' = sends + 1
    /\ IF stock[item] = 0
       THEN Revert("This item is not in stock")
       ELSE IF value # prices[item] * quantity
       THEN Revert("Provided funds do not match current prices")
       ELSE IF quantity > stock[item]
       THEN Revert("Panic(0x11)")
       ELSE /\ stock' = [stock EXCEPT ![item] = @ - quantity]
            /\ balance' = balance + value
            /\ emitted' = Append(emitted, [event |-> "ItemPurchased",
                                           item |-> item, quantity |-> quantity])
            /\ reverted' = "no"
            /\ prices' = prices

\* purchase(item, quantity) sent by caller with value attached: the three
\* requirements of the tests, then the stock goes down (a uint256, whose
\* subtraction reverts below zero), the value stays with the contract and
\* ItemPurchased is emitted
purchase(caller, item, quantity, value) ==
    /\ sends < MaxSends
    /\ sends' = sends + 1
    /\ IF stock[item] = 0
       THEN Revert("This item is not in stock")
       ELSE IF quantity = 0
       THEN Revert("No quantity specified")
       ELSE IF value # prices[item] * quantity
       THEN Revert("Provided funds do not match current prices")
       ELSE IF quantity > stock[item]
       THEN Revert("Panic(0x11)")
       ELSE /\ stock' = [stock EXCEPT ![item] = @ - quantity]
            /\ balance' = balance + value
            /\ emitted' = Append(emitted, [event |-> "ItemPurchased",
                                           item |-> item, quantity |-> quantity])
            /\ reverted' = "no"
            /\ prices' = prices

\* withdraw() sent by caller: the owner only; the balance goes to the owner
withdraw(caller) ==
    /\ sends < MaxSends
    /\ sends' = sends + 1
    /\ IF caller # "owner"
       THEN Revert("Nah uh - you are not the owner")
       ELSE /\ balance' = 0
            /\ reverted' = "no"
            /\ UNCHANGED <<prices, stock, emitted>>

\* a transaction of each kind, from either account; the indexer and the
\* browser are not part of it
SendAddItems ==
    /\ \E caller \in Accounts, names \in Arrays(Items), ps \in Arrays(Prices),
          ss \in Arrays(0..MaxStock) : addItems(caller, names, ps, ss)
    /\ UNCHANGED <<indexerVars, uiVars>>

SendPurchase ==
    /\ \E caller \in Accounts, item \in Items, quantity \in 0..(MaxStock + 1),
          value \in Values : purchase(caller, item, quantity, value)
    /\ UNCHANGED <<indexerVars, uiVars>>

SendWithdraw ==
    /\ \E caller \in Accounts : withdraw(caller)
    /\ UNCHANGED <<indexerVars, uiVars>>

NextStorefront == SendAddItems \/ SendPurchase \/ SendWithdraw

\* the contract deployed, and the indexer's environment complete
InitStorefront == Init /\ env = EnvVars

SpecStorefront == InitStorefront /\ [][NextStorefront]_vars

(***************************************************************************)
(* The browser interface: App, Storefront and the wallet.                  *)
(***************************************************************************)
\* getItems(): one StoreItem per ItemUpdated log, with the price and the
\* stock the contract has now (numbers far below 2^53, which parseInt keeps)
getItems ==
    LET updates == SelectSeq(emitted, LAMBDA e : e.event = "ItemUpdated")
    IN  [k \in 1..Len(updates) |->
            [name  |-> updates[k].item,
             price |-> prices[updates[k].item],
             stock |-> stock[updates[k].item]]]

\* the notes purchase() sets
Success == [text |-> "[SUCCESS] Purchase confirmed in transaction"]
Failed(message) == [text |-> "[FAILED]", message |-> message]

\* setIsConnected(connected): App shows Storefront when connected and the
\* Connect link when not; a Storefront that is mounted starts from its
\* useState defaults and calls getItems
setIsConnected(connected) ==
    /\ isConnected' = connected
    /\ IF connected = isConnected
       THEN UNCHANGED <<itemsPc, storeItems, isPurchasing, purchaseNote>>
       ELSE /\ itemsPc' = IF connected THEN "getItems" ELSE "unmounted"
            /\ storeItems' = <<>>
            /\ isPurchasing' = FALSE
            /\ purchaseNote' = Undefined

\* App's effect: getAccounts has answered
AccountsLoaded ==
    /\ appPc = "getAccounts"
    /\ appPc' = "idle"
    /\ setIsConnected(walletAccounts)
    /\ UNCHANGED <<indexerVars, storeVars, walletAccounts, connectPc, flows,
                   purchases>>

\* a click on Connect: connect() awaits requestAccounts (the wallet takes one
\* request at a time)
connect ==
    /\ ~isConnected
    /\ connectPc = "idle"
    /\ connectPc' = "requestAccounts"
    /\ UNCHANGED <<indexerVars, storeVars, walletAccounts, appPc, isConnected,
                   itemsPc, storeItems, isPurchasing, purchaseNote, flows,
                   purchases>>

\* requestAccounts has answered: the user approved, and connect() awaits
\* getAccounts, or refused, and connect() logs the error
RequestAccountsAnswered(approved) ==
    /\ connectPc = "requestAccounts"
    /\ IF approved
       THEN /\ walletAccounts' = TRUE
            /\ connectPc' = "getAccounts"
       ELSE /\ walletAccounts' = walletAccounts
            /\ connectPc' = "idle"
    /\ UNCHANGED <<indexerVars, storeVars, appPc, isConnected, itemsPc,
                   storeItems, isPurchasing, purchaseNote, flows, purchases>>

\* connect(): getAccounts has answered
ConnectAccounts ==
    /\ connectPc = "getAccounts"
    /\ connectPc' = "idle"
    /\ setIsConnected(walletAccounts)
    /\ UNCHANGED <<indexerVars, storeVars, walletAccounts, appPc, flows,
                   purchases>>

\* Storefront's effect: getItems has answered
ItemsLoaded ==
    /\ itemsPc = "getItems"
    /\ itemsPc' = "loaded"
    /\ storeItems' = getItems
    /\ UNCHANGED <<indexerVars, storeVars, walletAccounts, appPc, connectPc,
                   isConnected, isPurchasing, purchaseNote, flows, purchases>>

\* Storefront renders the table, with Buy Now on the rows in stock
BuyNowShown(k) ==
    /\ isConnected
    /\ ~isPurchasing
    /\ k \in 1..Len(storeItems)
    /\ storeItems[k].stock > 0

\* a click on Buy Now in row k: purchase(storeItem) up to its first await
BuyNow(k) ==
    /\ BuyNowShown(k)
    /\ isPurchasing' = TRUE
    /\ flows' = flows (+) SetToBag({[pc |-> "getAccounts", item |-> storeItems[k]]})
    /\ purchases' = purchases + 1
    /\ UNCHANGED <<indexerVars, storeVars, walletAccounts, appPc, connectPc,
                   isConnected, itemsPc, storeItems, purchaseNote>>

\* a purchase() that ends with setIsPurchasing(false)
SettleClearing(flow, note) ==
    /\ flows' = flows (-) SetToBag({flow})
    /\ purchaseNote' = note
    /\ isPurchasing' = FALSE

\* purchase() has left its try or its catch: the note is set and nothing else
Settle(flow, note) ==
    /\ flows' = flows (-) SetToBag({flow})
    /\ purchaseNote' = note
    /\ isPurchasing' = isPurchasing

\* purchase(): getAccounts has answered; send() is called with the first
\* account, and throws when there is none
PurchaseAccounts(flow) ==
    /\ BagIn(flow, flows)
    /\ flow.pc = "getAccounts"
    /\ IF walletAccounts
       THEN /\ flows' = (flows (-) SetToBag({flow}))
                           (+) SetToBag({[flow EXCEPT !.pc = "send"]})
            /\ UNCHANGED <<purchaseNote, isPurchasing>>
       ELSE Settle(flow, Failed("No \"from\" address specified"))
    /\ UNCHANGED <<indexerVars, storeVars, walletAccounts, appPc, connectPc,
                   isConnected, itemsPc, storeItems, purchases>>

\* purchase(): the user turned the transaction down in the wallet
PurchaseRejected(flow) ==
    /\ BagIn(flow, flows)
    /\ flow.pc = "send"
    /\ Settle(flow, Failed("User denied transaction signature"))
    /\ UNCHANGED <<indexerVars, storeVars, walletAccounts, appPc, connectPc,
                   isConnected, itemsPc, storeItems, purchases>>

\* purchase(): the transaction purchase(storeItem.name, 1) with
\* storeItem.price attached was mined, and went through or reverted
PurchaseMined(flow) ==
    /\ BagIn(flow, flows)
    /\ flow.pc = "send"
    /\ purchase("otherAccount", flow.item.name, 1, flow.item.price)
    /\ Settle(flow, IF reverted' = "no" THEN Success ELSE Failed(reverted'))
    /\ UNCHANGED <<indexerVars, walletAccounts, appPc, connectPc, isConnected,
                   itemsPc, storeItems, purchases>>

\* the browser, with the owner stocking the shop and others buying from it
NextUI ==
    \/ AccountsLoaded
    \/ connect
    \/ \E approved \in BOOLEAN : RequestAccountsAnswered(approved)
    \/ ConnectAccounts
    \/ ItemsLoaded
    \/ \E k \in 1..Len(storeItems) : BuyNow(k)
    \/ \E flow \in BagToSet(flows) : PurchaseAccounts(flow)
    \/ \E flow \in BagToSet(flows) : PurchaseRejected(flow)
    \/ \E flow \in BagToSet(flows) : PurchaseMined(flow)
    \/ SendAddItems
    \/ SendPurchase

SpecUI == InitStorefront /\ [][NextUI]_vars

(***************************************************************************)
(* What the claims speak of.                                               *)
(***************************************************************************)
\* the purchase logs on the chain: ItemPurchased(item, quantity)
PurchaseLogs ==
    {l \in {chain[k] : k \in 1..Len(chain)} : PURCHASE_FILTER(l) /\ Decodes(l)}

\* the receipt the data model asks for: the decoded fields and the
\* transaction's sender, attached value and hash, as they are
ExactReceipt(log) ==
    [from          |-> txs[log.transactionHash].from,
     item          |-> log.data.item,
     quantity      |-> log.data.quantity,
     total         |-> txs[log.transactionHash].value,
     transactionId |-> log.transactionHash]

\* processPurchases has run to the end for this hash at least once
Processed(hash) == \E line \in BagToSet(lines) : line.transactionId = hash

\* how many times it has
TimesProcessed(hash) ==
    LET ls == {line \in BagToSet(lines) : line.transactionId = hash}
    IN  IF ls = {} THEN 0 ELSE CopiesIn(CHOOSE line \in ls : TRUE, lines)

\* a live processPurchases call for this hash awaits its transaction
InFlight(hash) == \E t \in BagToSet(liveTasks) : t.transactionHash = hash

\* C1: whatever the interleaving of the backfill and the live deliveries, the
\* Ledger holds exactly one correct receipt for every purchase log processed
\* (distinct hashes) and no other entry
C1_OneCorrectReceiptPerHash ==
    /\ \A log \in PurchaseLogs :
          Processed(log.transactionHash) =>
             /\ log.transactionHash \in DOMAIN ledger
             /\ ledger[log.transactionHash] = ExactReceipt(log)
    /\ \A h \in DOMAIN ledger : Processed(h)

\* C1, the part the code keeps: the entry of a processed hash is the receipt
\* processPurchases builds from the log and its transaction, whatever the
\* interleaving
C1_InterleavingKeepsBuiltReceipt ==
    /\ \A log \in PurchaseLogs :
          Processed(log.transactionHash) =>
             /\ log.transactionHash \in DOMAIN ledger
             /\ ledger[log.transactionHash] =
                   Receipt(txs[log.transactionHash], log.data.item, log.data.quantity)
    /\ \A h \in DOMAIN ledger : Processed(h)

\* C2: processing a hash again, from either path, leaves its one entry with
\* the field values it had after the first time
C2_ReprocessingLeavesEntry ==
    [][\A h \in DOMAIN ledger : h \in DOMAIN ledger' /\ ledger'[h] = ledger[h]]_vars

\* C2 witness: a hash processed by the backfill and by the live path, with its
\* entry in the Ledger
C2_ProcessedByBothPaths ==
    \E h \in DOMAIN ledger :
       /\ TimesProcessed(h) >= 2
       /\ deliveries[h] >= 1
       /\ ~InFlight(h)
       /\ dropped = {}
       /\ pc = "done"
       /\ \E k \in 1..Len(purchaseLogs) : purchaseLogs[k].transactionHash = h

\* the blocks a request covers are fromBlock..toBlock, both included
FromBlock(q) == q[1]
ToBlock(q)   == q[2]

\* ceil(a / b)
CeilDiv(a, b) == (a + b - 1) \div b

Min(a, b) == IF a < b THEN a ELSE b

\* C3: the finished backfill has issued ceil(H/W) requests, request k being
\* the range [(k-1)W, min(kW, H)): the ranges do not overlap and together are
\* [0, H); none for H = 0; for H = 1,200,000 they end at 500000, 1000000 and
\* 1200000
C3_WindowsHalfOpen ==
    pc = "done" =>
       /\ Len(queries) = CeilDiv(currentBlockNumber, WindowSize)
       /\ \A k \in 1..Len(queries) :
             /\ FromBlock(queries[k]) = (k - 1) * WindowSize
             /\ ToBlock(queries[k]) = Min(k * WindowSize, currentBlockNumber)

\* C3, what the code does: ceil(H/W) requests, request k from (k-1)W to kW
C3_WindowsAsIssued ==
    pc = "done" =>
       /\ Len(queries) = CeilDiv(currentBlockNumber, WindowSize)
       /\ \A k \in 1..Len(queries) :
             /\ FromBlock(queries[k]) = (k - 1) * WindowSize
             /\ ToBlock(queries[k]) = k * WindowSize

\* C3: the backfill over H = 1,200,000 has finished
C3_ScanOf1200000Done == pc = "done" /\ currentBlockNumber = 1200000

\* C4: no request of the backfill reaches past the height read at the start
C4_NoRequestPastHeight ==
    \A k \in 1..Len(queries) : ToBlock(queries[k]) <= currentBlockNumber

\* both paths are idle and nothing has failed: the backfill has finished, the
\* subscription is established, every log handed to it was delivered and
\* processed, no transaction was dropped
Idle ==
    /\ running
    /\ pc = "done"
    /\ subState = "active"
    /\ liveTasks = EmptyBag
    /\ dropped = {}
    /\ errors = {}
    /\ \A log \in feed : deliveries[log.transactionHash] >= 1

\* C5: without failures no purchase log is missed; once both paths are idle
\* every purchase log on the chain has its receipt in the Ledger
C5_NoGaps ==
    Idle => \A log \in PurchaseLogs : log.transactionHash \in DOMAIN ledger

\* C6: processPurchases given a log whose first topic is not the ItemPurchased
\* signature fails to decode it, whatever the data, and so never gets to
\* insert a receipt for it
C6_WrongTopicFailsDecode ==
    [][\A log \in AnyLogs :
          (DirectCall(log) /\ log.topic # PurchasedTopic) =>
             /\ "DecodeError" \in errors'
             /\ liveTasks' = liveTasks]_vars

\* steps in which the processing of a log fails: its data does not decode
\* (in the subscription callback, or for the first log of a window)
DecodeFails ==
    \/ \E log \in feed : LiveLog(log) /\ ~Decodes(log)
    \/ PastLogs /\ pc' = "rejected"

\* its transaction is not found
LookupFails ==
    \/ ScanTransaction /\ getTransaction(purchaseLogs[idx].transactionHash) = Null
    \/ \E task \in BagToSet(liveTasks) :
          LiveTransaction(task) /\ getTransaction(task.transactionHash) = Null

\* the backfill stores the receipt of one log of the window and, in the same
\* turn, fails to decode the next
StoresThenDecodeFails ==
    /\ ScanTransaction
    /\ getTransaction(purchaseLogs[idx].transactionHash) # Null
    /\ pc' = "rejected"

\* the Ledger differs at most in the entry of this hash
SameExceptFor(hash) ==
    /\ DOMAIN ledger' \subseteq DOMAIN ledger \cup {hash}
    /\ \A h \in DOMAIN ledger : h \in DOMAIN ledger' /\ (h # hash => ledger'[h] = ledger[h])

ReceiptFields == {"from", "item", "quantity", "total", "transactionId"}

\* C7: a failed processing (decode failure, transaction not found) leaves the
\* Ledger as it was, and every entry of the Ledger has all its fields
C7_FailureLeavesLedger ==
    /\ [][(DecodeFails \/ LookupFails) => ledger' = ledger]_vars
    /\ [][StoresThenDecodeFails =>
            /\ purchaseLogs[idx'].transactionHash # purchaseLogs[idx].transactionHash
            /\ SameExceptFor(purchaseLogs[idx].transactionHash)]_vars
    /\ [](\A h \in DOMAIN ledger : DOMAIN ledger[h] = ReceiptFields)

\* C7 witness: both kinds of failure have happened while the Ledger held a
\* receipt
C7_FailuresWithEntries ==
    /\ {"DecodeError", "NotFound"} \subseteq errors
    /\ ledger # <<>>

\* C8: a failed transaction lookup costs the backfill that log only: when
\* the backfill has stopped, every purchase log mined up to the height read
\* and still on the chain has its receipt
C8_LookupFailureSkipsOneLog ==
    (running /\ pc \in {"done", "rejected"} /\ errors \subseteq {"NotFound"}) =>
        \A log \in PurchaseLogs :
           log.blockNumber <= currentBlockNumber =>
              log.transactionHash \in DOMAIN ledger

\* C9: a subscription that has reported a transport failure is issued again
C9_Resubscribes ==
    (subState = "failed" /\ running) ~> (subState \in {"requested", "active"})

\* C10: every receipt in the Ledger has the sender, the decoded item and
\* quantity, the attached value as total, and the hash
C10_ReceiptFields ==
    \A log \in PurchaseLogs :
       log.transactionHash \in DOMAIN ledger =>
          ledger[log.transactionHash] = ExactReceipt(log)

\* C10: the receipt of value 300 and ItemPurchased("sneakers", 2) from 0xA
C10_SneakersReceipt ==
    \E h \in DOMAIN ledger :
       ledger[h] = [from |-> "0xA", item |-> "sneakers", quantity |-> Num(0, 2),
                    total |-> Num(0, 300), transactionId |-> h]

\* C11: over the whole run exactly one observability line is printed for a
\* purchase that is in the Ledger, also when its log came by the backfill
\* and by the subscription
C11_OneLinePerPurchase ==
    \A h \in DOMAIN ledger : TimesProcessed(h) = 1

\* C11: a purchase mined after the subscription was confirmed and inside the
\* last window of the backfill, processed once by each path, no failure
C11_PrintedByBothPaths ==
    \E h \in DOMAIN ledger :
       /\ TimesProcessed(h) = 2
       /\ deliveries[h] = 1
       /\ errors = {}
       /\ dropped = {}

\* C12: with STOREFRONT_ADDRESS or WEB3_URI missing the script stops at its
\* top level: start() is never entered, so the height is not read, nothing is
\* subscribed to, no range is requested, and the Ledger stays empty
C12_MissingConfigFailsAtStartup ==
    ~(EnvVars \subseteq env) =>
        /\ pc \in {"load", "fatal"}
        /\ pc = "fatal" => ~running /\ errors = {"Config"}
        /\ currentBlockNumber = 0
        /\ subState = "none"
        /\ feed = {}
        /\ queries = <<>>
        /\ liveTasks = EmptyBag
        /\ ledger = <<>>
        /\ lines = EmptyBag

\* C12: the script has stopped on WEB3_URI alone missing, with a purchase on
\* the chain it would have indexed
C12_StoppedWithoutUri ==
    /\ env = {"STOREFRONT_ADDRESS"}
    /\ pc = "fatal"
    /\ PurchaseLogs # {}

\* the receipt of the log at position k of the window is stored and printed
Applied(k) ==
    /\ purchaseLogs[k].transactionHash \in DOMAIN ledger
    /\ Processed(purchaseLogs[k].transactionHash)

\* C14: the backfill works through its windows one after the other: a range
\* is requested only when every log returned for the range before it is
\* stored, the last request issued is the one for the window at the cursor,
\* and within a window the logs are taken one at a time in the order returned
C14_WindowsSequential ==
    /\ [](pc \in {"getPastLogs", "done"} =>
             \A k \in 1..Len(purchaseLogs) : Applied(k))
    /\ [](pc = "getTransaction" =>
             /\ idx \in 1..Len(purchaseLogs)
             /\ \A k \in 1..(idx - 1) : Applied(k))
    /\ [](pc \in {"getPastLogs", "getTransaction", "rejected"} =>
             queries[Len(queries)] = <<i, i + WindowSize>>)
    /\ [][(pc = "getTransaction" /\ pc' = "getTransaction") =>
             /\ purchaseLogs' = purchaseLogs
             /\ idx' \in {idx, idx + 1}]_vars
    /\ [][queries' # queries =>
             /\ queries' = Append(queries, <<i', i' + WindowSize>>)
             /\ \A k \in 1..Len(purchaseLogs') :
                   purchaseLogs'[k].transactionHash \in DOMAIN ledger']_vars

\* C14: the scan is done after two windows, the first with one log and the
\* second with two
C14_TwoWindowsDone ==
    /\ pc = "done"
    /\ Len(queries) = 2
    /\ Len(purchaseLogs) = 2
    /\ Len(getPastLogs(0, WindowSize)) = 1

\* the backfill is between its first range request and its end
Scanning == pc \in {"getPastLogs", "getTransaction"}

\* C15: the subscription is asked for before the first range is, and the
\* live path does not wait for the scan: wherever the scan stands, a log the
\* node has to push can be taken by the callback, and a live call awaiting
\* its transaction can store its receipt
C15_LiveIndependentOfBackfill ==
    /\ queries # <<>> => subState # "none"
    /\ (running /\ subState = "active") =>
          \A log \in feed :
             deliveries[log.transactionHash] = 0 => ENABLED LiveLog(log)
    /\ running =>
          \A task \in BagToSet(liveTasks) : ENABLED LiveTransaction(task)

\* C15: the scan awaits the answer to its first range request, has stored
\* nothing yet, and the Ledger has the receipt of a log the subscription
\* delivered
C15_LiveStoredDuringScan ==
    /\ pc = "getPastLogs"
    /\ Len(queries) = 1
    /\ \E h \in DOMAIN ledger : deliveries[h] = 1 /\ TimesProcessed(h) = 1

\* C16: the Ledger only grows: from one state to the next no key goes away,
\* and in every state the entry under a key has that key as transactionId
C16_LedgerOnlyGrows ==
    /\ [][DOMAIN ledger \subseteq DOMAIN ledger']_vars
    /\ [](\A k \in DOMAIN ledger : ledger[k].transactionId = k)

\* C16: two receipts in the Ledger, one of them stored more than once, and
\* the transaction of one of them since dropped from the chain
C16_TwoKeysOneRestored ==
    /\ Cardinality(DOMAIN ledger) = 2
    /\ \E h \in DOMAIN ledger : TimesProcessed(h) >= 2
    /\ \E h \in DOMAIN ledger : h \in dropped

\* the scan has ended: indexPastPurchases returned, or threw at a log
Ended == pc \in {"done", "rejected"} \/ ~running

\* C17: the backfill ends whenever every call it awaits is answered: the
\* cursor starts at 0 and moves by the window size and by nothing else, one
\* move per window, the scan goes on exactly while the cursor is below the
\* height read and is done with the cursor at or above it, and the
\* subscription goes on delivering once the scan is done
C17_BackfillTerminates ==
    /\ [](queries # <<>> => FromBlock(queries[1]) = 0)
    /\ [][i' # i => i' = i + WindowSize]_vars
    /\ [][(queries' # queries /\ queries # <<>>) => i' = i + WindowSize]_vars
    /\ [](Scanning => i < currentBlockNumber)
    /\ [](pc = "done" =>
             /\ i >= currentBlockNumber
             /\ i < currentBlockNumber + WindowSize)
    /\ (pc = "getBlockNumber") ~> Ended
    /\ \A h \in Hashes :
          (/\ pc = "done"
           /\ \E log \in feed : log.transactionHash = h
           /\ deliveries[h] = 0)
             ~> (deliveries[h] > 0 \/ ~running \/ subState = "failed")

\* C17: the scan is done after two windows, and the Ledger has the receipt of
\* a log mined inside the last range after the scan was done, which the
\* subscription delivered
C17_DoneAndDeliveredAfter ==
    /\ pc = "done"
    /\ Len(queries) = 2
    /\ \E h \in DOMAIN ledger :
          /\ deliveries[h] = 1
          /\ \A k \in 1..Len(purchaseLogs) : purchaseLogs[k].transactionHash # h

\* the item is not in stock for this quantity: none of it, or less than asked
NotInStock(item, quantity) == stock[item] = 0 \/ stock[item] < quantity

C18_PurchasingNeverCleared ==
    /\ [][isPurchasing => isPurchasing']_vars
    /\ [][isConnected => isConnected']_vars
    /\ [](purchases >= 1 => isPurchasing)
    /\ [](isPurchasing => \A k \in 1..Len(storeItems) : ~BuyNowShown(k))
    /\ [](purchases <= 1)
    /\ [](BagCardinality(flows) <= 1)

\* C18: the one purchase has failed, the flag is still set, and the shop has
\* an item in stock that the page lists
C18_FailedAndStillPurchasing ==
    /\ isPurchasing
    /\ flows = EmptyBag
    /\ purchaseNote # Undefined
    /\ purchaseNote # Success
    /\ \E k \in 1..Len(storeItems) : stock[storeItems[k].name] > 0

====
